---- MODULE Spec2Model ----
(***************************************************************************)
(* Model of the Flo integration: the OAuth2 API client (api.py), the       *)
(* per-device polling coordinator with its projections (coordinator.py)    *)
(* and the setup of a config entry (__init__.py).                          *)
(*                                                                         *)
(* The client is shared by every coordinator and entity of the entry, and  *)
(* nothing serializes their calls.  They run as tasks of one event loop: a *)
(* task runs until it awaits, so an operation of the client is a sequence  *)
(* of steps, one from each await to the next, and the steps of different   *)
(* tasks interleave.                                                       *)
(*                                                                         *)
(* Four specifications: Spec (the update cycles of a coordinator),         *)
(* SpecClient (the client's operations called by two tasks as the clock    *)
(* advances), SpecSetup (async_setup_entry and async_unload_entry) and     *)
(* SpecRace (the first refreshes of two coordinators, gathered by setup,   *)
(* on the shared client).                                                  *)
(*                                                                         *)
(* The client is one record of token fields.  Every answer of the token    *)
(* endpoint that carries a body has its own number `id`; the tokens and    *)
(* the user id it supplies are modelled by that number, so that the origin *)
(* of every stored field can be told.  0 stands for Python's None.         *)
(* Time is an integer number of seconds.                                   *)
(***************************************************************************)
EXTENDS Integers, Sequences, FiniteSets

VARIABLES
    api,                 \* FloAPI: the token fields of the shared client
    now,                 \* datetime.now(), in seconds
    ticks,               \* how often the clock has been advanced
    nextId,              \* number of the next token-endpoint answer with a body
    task,                \* the tasks that call the client: where each stands in
                         \* its operation, and the history of that operation
    device_information,  \* coordinator._device_information, of each coordinator
    water_usage,         \* coordinator._water_usage
    failure_count,       \* coordinator._failure_count
    last_update_success, \* coordinator.last_update_success, kept by the host
    pc,                  \* the step of the coordinator's update cycle under way
    origin,              \* history: the exchange the held token comes from
    cyc,                 \* history: the coordinator's current / last update cycle
    good,                \* history: the documents after the last successful cycle,
                         \*          and whether a consumption document was ever fetched
    run,                 \* history: failing cycles since the last successful cycle
    setup                \* async_setup_entry: where it stands and how it ended

vars == <<api, now, ticks, nextId, task, device_information, water_usage,
          failure_count, last_update_success, pc, origin, cyc, good, run, setup>>

---------------------------------------------------------------------------
(* Bounds of the model *)

\* number of token-endpoint answers that carry a body
MaxResp == 4
\* number of clock advances
MaxTicks == 1
\* number of consecutive failing cycles explored
MaxRun == 4

---------------------------------------------------------------------------
(* Values *)

None == 0
NoExp == -1

\* timedelta(minutes=5), in seconds
RefreshMargin == 300

\* the coordinator reports a failure once the counter exceeds this
FailureLimit == 3

\* expires_in values the token endpoint may answer with
ExpiresIn == {300, 3600}

\* clock advances: to one second before the margin of a 3600 s token, and to
\* the margin itself
ClockSteps == {3299, 3300}

TokenKeys == {"access_token", "refresh_token", "user_id", "expires_in"}

\* the key sets of the token answers explored: complete, without
\* access_token, without expires_in, and the refresh answer without rotation
\* (access_token and expires_in only, which authenticate() finds incomplete)
KeySets == {TokenKeys, TokenKeys \ {"access_token"}, TokenKeys \ {"expires_in"},
            {"access_token", "expires_in"}}

NoResp == [kind |-> "none", keys |-> {}, id |-> 0, expires_in |-> 0]

\* An answer of the token endpoint or of the API: a JSON body ("ok"), an
\* aiohttp ClientError (connection failure, non-2xx status), the total
\* timeout expiring (TimeoutError), or a body that is not JSON.
FailureKinds == {"client_error", "timeout", "bad_json"}

TokenResponses(id) ==
    (IF id <= MaxResp
     THEN {[kind |-> "ok", keys |-> ks, id |-> id,
            expires_in |-> IF {"access_token", "expires_in"} \subseteq ks
                           THEN e ELSE 0] :
              ks \in KeySets, e \in ExpiresIn}
     ELSE {})
    \cup {[kind |-> k, keys |-> {}, id |-> 0, expires_in |-> 0] : k \in FailureKinds}

EmptyDoc == [k \in {} |-> 0]

\* device documents (GET /devices/{id}): with a nickname and a model, with
\* a model only, with a nickname only
DeviceDocs == { [nickname |-> "Main", deviceModel |-> "flo_device_075_v2", isConnected |-> TRUE],
                [deviceModel |-> "flo_device_075_v2", isConnected |-> FALSE],
                [nickname |-> "Main", isConnected |-> TRUE] }

\* consumption documents (GET /water/consumption): with the sum, with empty
\* aggregations, with aggregations that lack the sum
ConsumptionDocs == { [aggregations |-> [sumTotalGallonsConsumed |-> 12]],
                     [aggregations |-> EmptyDoc],
                     [aggregations |-> [sumTotalDuration |-> 40]] }

NoReq == [kind |-> "none", doc |-> EmptyDoc]

ApiResponses(docs) ==
    {[kind |-> "ok", doc |-> d] : d \in docs}
    \cup {[kind |-> k, doc |-> EmptyDoc] : k \in FailureKinds}

\* the exception a failed HTTP exchange raises, before any handler
Raised(kind) ==
    CASE kind = "client_error" -> "ClientError"
      [] kind = "timeout" -> "TimeoutError"
      [] kind = "bad_json" -> "JSONDecodeError"
      [] OTHER -> "none"


---------------------------------------------------------------------------
(* The API client, api.py *)

\* FloAPI.__init__: the credentials are stored and no token is held.
\* exp_from is history: the number of the token answer from which
\* token_expiration was computed.
NewClient ==
    [username |-> "user", password |-> "secret",
     access_token |-> None, refresh_token |-> None, user_id |-> None,
     token_expiration |-> NoExp, exp_from |-> None]

\* what the arrival of a token answer makes of the client: the client's
\* fields afterwards and how the method ends ("ok" or the exception that
\* leaves it)
Result(c, outcome) == [client |-> c, outcome |-> outcome]

\* FloAPI.authenticate from the arrival of the password grant's answer r at
\* time t, on the client as it is then.  The fields are stored one by one as
\* they are read from the answer; a missing key stops the method there
\* (KeyError, turned into FloAuthError), with the earlier fields set.
Authenticate(c, r, t) ==
    LET c1 == [c EXCEPT !.access_token = r.id]
        c2 == [c1 EXCEPT !.refresh_token = r.id]
        c3 == [c2 EXCEPT !.user_id = r.id]
        c4 == [c3 EXCEPT !.token_expiration = t + r.expires_in, !.exp_from = r.id]
    IN  CASE r.kind = "client_error" -> Result(c, "FloAuthError")
          [] r.kind \in {"timeout", "bad_json"} -> Result(c, Raised(r.kind))
          [] "access_token" \notin r.keys -> Result(c, "FloAuthError")
          [] "refresh_token" \notin r.keys -> Result(c1, "FloAuthError")
          [] "user_id" \notin r.keys -> Result(c2, "FloAuthError")
          [] "expires_in" \notin r.keys -> Result(c3, "FloAuthError")
          [] OTHER -> Result(c4, "ok")

\* mutant: the test of line 102 made on the access token
NoRefreshToken_OnAccessToken(c) == c.access_token = None

\* refresh_access_token, line 102: no refresh token is held
NoRefreshToken(c) == c.refresh_token = None

\* mutant: a failed refresh grant is not retried by authenticate()
RefreshFallsBack_Never(r) == FALSE

\* refresh_access_token, line 135: the failure of the refresh grant that
\* falls back to authenticate()
RefreshFallsBack(r) == r.kind = "client_error"

\* mutant: line 127 taking a refresh token from every answer
Rotates_Always(r) == TRUE

\* refresh_access_token, line 127: the answer carries a new refresh token
Rotates(r) == "refresh_token" \in r.keys

\* FloAPI.refresh_access_token from the arrival of the refresh grant's
\* answer r at time t, on the client as it is then, when the answer is not
\* the failure that falls back to authenticate().  A missing key leaves the
\* method as KeyError, which nothing catches.
RefreshAccessToken(c, r, t) ==
    LET c1 == [c EXCEPT !.access_token = r.id]
        c2 == IF Rotates(r)
              THEN [c1 EXCEPT !.refresh_token = r.id] ELSE c1
        c3 == [c2 EXCEPT !.token_expiration = t + r.expires_in, !.exp_from = r.id]
    IN  CASE r.kind \in {"timeout", "bad_json"} -> Result(c, Raised(r.kind))
          [] "access_token" \notin r.keys -> Result(c, "KeyError")
          [] "expires_in" \notin r.keys -> Result(c2, "KeyError")
          [] OTHER -> Result(c3, "ok")

\* mutant: line 142 without the test of the expiration
NoToken_AccessOnly(c) == c.access_token = None

\* _ensure_token_valid, line 142: no token or no expiration is held
NoToken(c) == c.access_token = None \/ c.token_expiration = NoExp

\* mutant: line 147 with > for >=
NearExpiry_Strict(c, t) == t > c.token_expiration - RefreshMargin

\* mutant: line 147 with the comparison turned round
NearExpiry_Flipped(c, t) == t <= c.token_expiration - RefreshMargin

\* _ensure_token_valid, line 147: the token expires within the margin
NearExpiry(c, t) == t >= c.token_expiration - RefreshMargin

\* what the gate of a request finds: no token, a token within the margin, or
\* a fresh one (lines 142 and 147)
GateSees(c, t) ==
    IF NoToken(c) THEN "absent" ELSE IF NearExpiry(c, t) THEN "near" ELSE "fresh"

\* _ensure_token_valid up to its await: the grant the gate sends, none for a
\* fresh token, the password grant without a token or without a refresh
\* token, else the refresh grant
GateGrant(c, t) ==
    CASE GateSees(c, t) = "fresh" -> "none"
      [] GateSees(c, t) = "absent" \/ NoRefreshToken(c) -> "password"
      [] OTHER -> "refresh_token"

\* the grant an operation sends before its first await: authenticate() the
\* password grant, refresh_access_token() the grant line 102 chooses,
\* request() the grant of its gate
FirstGrant(op, c, t) ==
    CASE op = "authenticate" -> "password"
      [] op = "refresh" -> IF NoRefreshToken(c) THEN "password" ELSE "refresh_token"
      [] OTHER -> GateGrant(c, t)

\* request, lines 170-180: how the wrapped request ends on the answer q; a
\* ClientError is wrapped as FloRequestError
RequestOutcome(q) ==
    CASE q.kind = "client_error" -> "FloRequestError"
      [] q.kind \in {"timeout", "bad_json"} -> Raised(q.kind)
      [] OTHER -> "ok"
---------------------------------------------------------------------------
(* The coordinator, coordinator.py *)

\* _async_update_data, line 73: the exceptions the cycle's handler catches
Caught(err) == err \in {"FloRequestError", "TimeoutError", "JSONDecodeError"}

\* mutant: line 75 with >= for >
Reports_AtLimit(count) == count >= FailureLimit

\* _async_update_data, line 75: the counter at which UpdateFailed is raised
Reports(count) == count > FailureLimit

\* mutant: line 268 catching nothing
ConsumptionCaught_Nothing(err) == FALSE

\* mutant: line 268 catching every exception
ConsumptionCaught_Everything(err) == TRUE

\* _update_consumption_data, line 268: the exception the consumption step
\* swallows
ConsumptionCaught(err) == err = "FloRequestError"

\* How _async_update_data ends when a step raises err with the counter at
\* count: a caught error is counted and is reported as UpdateFailed only
\* beyond the limit; any other exception leaves the method as it is.
CycleFailure(count, err) ==
    IF Caught(err)
    THEN [failure_count |-> count + 1,
          result |-> IF Reports(count + 1) THEN "UpdateFailed" ELSE "soft"]
    ELSE [failure_count |-> count, result |-> err]

\* mutant: the next step of the cycle entered whatever the step before did
Proceeds_Always(outcome) == TRUE

\* _async_update_data, lines 69-72: the statement after an awaited step runs
\* only when that step returned
Proceeds(outcome) == outcome = "ok"

\* the host's DataUpdateCoordinator after _async_update_data: the flag is
\* set when the method returned and cleared when it raised
UpdateSuccess(result) == result \in {"ok", "soft"}

\* What a projection of the coordinator hands back: a value, Python's None
\* (no value), or the exception of a failed lookup.
Returns(v) == [raises |-> "none", value |-> <<v>>]

ReturnsNone == [raises |-> "none", value |-> <<>>]

Raises(err) == [raises |-> err, value |-> <<>>]

\* mutant: line 168 with 0 for a missing sum
ConsumptionToday_ZeroDefault(w) ==
    IF w = EmptyDoc \/ "aggregations" \notin DOMAIN w \/ w.aggregations = EmptyDoc
    THEN ReturnsNone
    ELSE IF "sumTotalGallonsConsumed" \in DOMAIN w.aggregations
         THEN Returns(w.aggregations.sumTotalGallonsConsumed)
         ELSE Returns(0)

\* consumption_today, over the cached consumption document w: None for an
\* empty document and for absent or empty aggregations, otherwise
\* aggregations.get("sumTotalGallonsConsumed")
ConsumptionToday(w) ==
    IF w = EmptyDoc \/ "aggregations" \notin DOMAIN w \/ w.aggregations = EmptyDoc
    THEN ReturnsNone
    ELSE IF "sumTotalGallonsConsumed" \in DOMAIN w.aggregations
         THEN Returns(w.aggregations.sumTotalGallonsConsumed)
         ELSE ReturnsNone

\* coordinator._manufacturer
Manufacturer == "Flo by Moen"

\* model, over the cached device document d: the subscript d["deviceModel"]
Model(d) ==
    IF "deviceModel" \in DOMAIN d THEN Returns(d.deviceModel) ELSE Raises("KeyError")

\* device_name: d.get("nickname", f"{manufacturer} {model}").  The default is
\* an argument of get and is evaluated, model included, before get looks for
\* the nickname.  A name is the sequence of its words.
DeviceName(d) ==
    IF Model(d).raises # "none" THEN Model(d)
    ELSE IF "nickname" \in DOMAIN d THEN Returns(<<d.nickname>>)
         ELSE Returns(<<Manufacturer, d.deviceModel>>)

\* mutant: line 128 without the host's flag
Available_FlagOnly(success, d) ==
    IF "isConnected" \in DOMAIN d THEN Returns(d.isConnected) ELSE Raises("KeyError")

\* available: last_update_success and d["isConnected"]; the subscript is
\* evaluated only when the host's flag is set
Available(success, d) ==
    IF ~success THEN Returns(FALSE)
    ELSE IF "isConnected" \in DOMAIN d THEN Returns(d.isConnected)
         ELSE Raises("KeyError")


---------------------------------------------------------------------------
(* Tasks and history *)

\* the calls of the token endpoint among the calls of an operation
TokenCalls(calls) == SelectSeq(calls, LAMBDA x : x # "request")

\* a token answer with every key authenticate() reads
Complete(r) == r.kind = "ok" /\ r.keys = TokenKeys

\* a token answer with every key the refresh grant needs
Refreshing(r) == r.kind = "ok" /\ {"access_token", "expires_in"} \subseteq r.keys

NoOrigin == [op |-> "none", at |-> 0, expires_in |-> 0]

\* The exchange the token fields come from once the answer r of a grant,
\* arrived at time t, has made the client c, its token from o, into c2:
\* that grant when it completed, "partial" when it stopped after storing
\* some of its fields.
OriginAfter(o, c, c2, grant, r, t) ==
    CASE grant = "password" /\ Complete(r) ->
             [op |-> "authenticate", at |-> t, expires_in |-> r.expires_in]
      [] grant = "refresh_token" /\ Refreshing(r) ->
             [op |-> "refresh", at |-> t, expires_in |-> r.expires_in]
      [] c2 = c -> o
      [] OTHER -> [op |-> "partial", at |-> t, expires_in |-> 0]

\* the tasks that call the shared client; each is the task of a coordinator
\* of its own when it runs an update cycle
Procs == {1, 2}

\* the task of setup, and of the coordinator it builds
Coord == 1

\* A task and the operation of the client it is in.
\*   pc       where it stands: idle, awaiting the answer of a grant
\*            ("password", "refresh_token"), leaving the block of the
\*            grant's answer ("leaving"), awaiting the answer of the wrapped
\*            request ("request"), or ended ("done")
\*   pending  while leaving the block: how the operation goes on afterwards,
\*            "ok", "fallback" (line 138) or the exception on its way out
\*   op, name the operation (authenticate, refresh, request) and the request
\*   saw, pre, from, t   what the gate found, the client, the origin of its
\*            token and the time when the operation began
\*   calls    the HTTP calls issued, in order
\*   r1, r2   the token answers received, in order
\*   cin, post, ts       the client just before and just after the last
\*            answer this operation stored, and the time of that
\*   wrote    this operation stored a field
\*   overlap  another task stored a field since this operation began
\*   sent     the access token the wrapped request was sent with
\*   outcome, doc        how the operation ended and the body it returned
\*   sound    every answer received was sound: a complete token answer or
\*            the rejection of a refresh grant, and the request answered
NoTask ==
    [pc |-> "idle", pending |-> "none", op |-> "none", name |-> "none",
     saw |-> "none", pre |-> NewClient, from |-> NoOrigin, t |-> 0,
     calls |-> <<>>, r1 |-> NoResp, r2 |-> NoResp,
     cin |-> NewClient, post |-> NewClient, ts |-> 0,
     wrote |-> FALSE, overlap |-> FALSE,
     sent |-> None, outcome |-> "none", doc |-> EmptyDoc, sound |-> TRUE]

\* The task that begins the operation op (for a request, the request name)
\* now: it runs up to its first await, where a grant has been sent or, the
\* gate passed, the wrapped request has been sent with the access token held
\* (line 164).
Entered(op, name) ==
    LET grant == FirstGrant(op, api, now)
        saw == IF op = "request" THEN GateSees(api, now) ELSE "none"
    IN  [NoTask EXCEPT !.pc = IF grant = "none" THEN "request" ELSE grant,
                       !.op = op, !.name = name,
                       !.saw = saw, !.pre = api, !.from = origin, !.t = now,
                       !.calls = <<IF grant = "none" THEN "request" ELSE grant>>,
                       !.cin = api, !.post = api,
                       !.sent = IF grant = "none" THEN api.access_token ELSE None]

\* the requests of a cycle after a step whose client operation issued calls
SentAfter(sent, step, calls) ==
    IF \E i \in 1..Len(calls) : calls[i] = "request" THEN Append(sent, step) ELSE sent

\* results of a cycle that did not complete
FailResults == {"soft", "UpdateFailed", "FloAuthError", "KeyError"}

\* a cycle: how it ended, how each of its steps ended, the wrapped requests
\* it sent in order, the counter and the documents when it began, the
\* device document it fetched, what the gate of its first request found and
\* the access token held then, whether every answer to its calls was sound,
\* and whether another task stored a token field during it
NoCycle ==
    [result |-> "none", ping |-> "none", device |-> "none", consumption |-> "none",
     sent |-> <<>>, n0 |-> 0, dev0 |-> EmptyDoc, cons0 |-> EmptyDoc, got |-> EmptyDoc,
     saw |-> "none", before |-> None, sound |-> TRUE, overlap |-> FALSE]

\* the history c of a cycle after its step has ended as the task k tells
StepEnded(c, step, k) ==
    [c EXCEPT ![step] = k.outcome,
              !.sent = SentAfter(c.sent, step, k.calls),
              !.sound = @ /\ k.sound,
              !.overlap = @ \/ k.overlap]

\* async_setup_entry before it starts: the step it is at, how it ended, the
\* step that raised and what it raised, whether entry.runtime_data was
\* stored and the platforms are set up, and what async_unload_entry returned
NoSetup ==
    [phase |-> "start", result |-> "none", step |-> "none", raised |-> "none",
     runtime_data |-> FALSE, platforms |-> FALSE, unloaded |-> "none"]

\* the exception that ended the cycle c
CycleError(c) ==
    CASE c.ping \notin {"none", "ok"} -> c.ping
      [] c.device \notin {"none", "ok"} -> c.device
      [] c.consumption \notin {"none", "ok"} /\ c.result # "ok" -> c.consumption
      [] OTHER -> "none"

---------------------------------------------------------------------------
(* The state machine *)

\* the user document (GET /users/{id}?expand=locations): one location with
\* one device, for which setup builds the coordinator
UserDocs == { [locations |-> <<[id |-> "loc", devices |-> <<[id |-> "dev"]>>]>>] }

\* the bodies the API answers a request with
DocsFor(name) ==
    CASE name = "device" -> DeviceDocs
      [] name = "consumption" -> ConsumptionDocs
      [] name = "user" -> UserDocs
      [] OTHER -> {EmptyDoc}

\* the coordinators as FloDeviceDataUpdateCoordinator.__init__ leaves them,
\* no task running, setup not begun
InitRest ==
    /\ now = 0
    /\ ticks = 0
    /\ task = [p \in Procs |-> NoTask]
    /\ device_information = [p \in Procs |-> EmptyDoc]
    /\ water_usage = [p \in Procs |-> EmptyDoc]
    /\ failure_count = [p \in Procs |-> 0]
    /\ last_update_success = [p \in Procs |-> TRUE]
    /\ pc = [p \in Procs |-> "idle"]
    /\ cyc = [p \in Procs |-> NoCycle]
    /\ good = [p \in Procs |-> [valid |-> FALSE, dev |-> EmptyDoc, cons |-> EmptyDoc,
                                fetched |-> FALSE]]
    /\ run = [p \in Procs |-> [all |-> 0, caught |-> 0]]
    /\ setup = NoSetup

\* FloAPI.__init__: a client that holds no token
Init ==
    /\ api = NewClient
    /\ nextId = 1
    /\ origin = NoOrigin
    /\ InitRest

\* A coordinator in operation, on a client authenticated by the password
\* grant (by setup, or by a later fallback of a refresh): it holds the
\* fields of a complete answer, numbered 1, received at time 0.
InitPolling ==
    /\ \E e \in ExpiresIn :
         LET r == [kind |-> "ok", keys |-> TokenKeys, id |-> 1, expires_in |-> e]
         IN  /\ api = Authenticate(NewClient, r, 0).client
             /\ origin = OriginAfter(NoOrigin, NewClient, api, "password", r, 0)
    /\ nextId = 2
    /\ InitRest

\* The client, the number of the next answer and the origin of the token as
\* setup leaves them when it builds the coordinators (lines 20-45):
\* authenticate() has stored the complete answer 1, and get_user_info() has
\* passed the gate of its request, which finds the token of 3600 s fresh
\* and the token of 300 s due; for that one it has stored the answer 2 of
\* the refresh grant or, the refresh grant rejected, of the password grant.
SetupClients ==
    UNION {
        LET r1 == [kind |-> "ok", keys |-> TokenKeys, id |-> 1, expires_in |-> e]
            c1 == Authenticate(NewClient, r1, 0).client
            o1 == OriginAfter(NoOrigin, NewClient, c1, "password", r1, 0)
            refreshed == {r \in TokenResponses(2) :
                            /\ ~RefreshFallsBack(r)
                            /\ RefreshAccessToken(c1, r, 0).outcome = "ok"}
            fallen == {r \in TokenResponses(2) :
                         /\ \E f \in TokenResponses(2) : RefreshFallsBack(f)
                         /\ Authenticate(c1, r, 0).outcome = "ok"}
        IN  IF GateGrant(c1, 0) = "none"
            THEN {[api |-> c1, nextId |-> 2, origin |-> o1]}
            ELSE {[api |-> RefreshAccessToken(c1, r, 0).client, nextId |-> 3,
                   origin |-> OriginAfter(o1, c1, RefreshAccessToken(c1, r, 0).client,
                                          "refresh_token", r, 0)] : r \in refreshed}
                 \cup
                 {[api |-> Authenticate(c1, r, 0).client, nextId |-> 3,
                   origin |-> OriginAfter(o1, c1, Authenticate(c1, r, 0).client,
                                          "password", r, 0)] : r \in fallen}
        : e \in ExpiresIn }

\* The coordinators of an entry with two devices, built by setup and about
\* to be refreshed together (line 49)
InitRace ==
    /\ \E s \in SetupClients :
         /\ api = s.api
         /\ nextId = s.nextId
         /\ origin = s.origin
    /\ InitRest

\* A client in use: FloAPI.__init__ and one call of authenticate(), whatever
\* the answer 1 of the token endpoint carried, so that the client holds
\* every field, none, or the fields stored before a key was missed.
InitClient ==
    /\ \E r \in {a \in TokenResponses(1) : a.kind = "ok"} :
         /\ api = Authenticate(NewClient, r, 0).client
         /\ origin = OriginAfter(NoOrigin, NewClient, api, "password", r, 0)
    /\ nextId = 2
    /\ InitRest

coordVars == <<device_information, water_usage, failure_count,
               last_update_success, pc, cyc, good, run>>

clientVars == <<api, nextId, origin>>

\* the clock advances, at any moment
Tick ==
    /\ ticks < MaxTicks
    /\ \E d \in ClockSteps : now' = now + d
    /\ ticks' = ticks + 1
    /\ UNCHANGED <<clientVars, task, coordVars, setup>>

\* The answer to the grant of task p arrives, inside the block of
\* session.post.  The fields of a body are stored in the client as it is now
\* (lines 81-87 and 125-131), up to the first key that is missing; then the
\* task leaves the block (the __aexit__ of the session's context manager,
\* an await), with what follows pending: the return, the fallback of a
\* refresh grant that failed with a ClientError (line 135), or the exception
\* on its way out.
TokenAnswer(p) ==
    /\ task[p].pc \in {"password", "refresh_token"}
    /\ \E r \in TokenResponses(nextId) :
         LET k == task[p]
             refresh == k.pc = "refresh_token"
             res == IF refresh /\ RefreshFallsBack(r) THEN Result(api, "fallback")
                    ELSE IF refresh THEN RefreshAccessToken(api, r, now)
                    ELSE Authenticate(api, r, now)
             sound == IF refresh THEN Refreshing(r) \/ r.kind = "client_error"
                      ELSE Complete(r)
             heard == IF Len(k.calls) = 1
                      THEN [k EXCEPT !.r1 = r, !.sound = @ /\ sound]
                      ELSE [k EXCEPT !.r2 = r, !.sound = @ /\ sound]
         IN  /\ api' = res.client
             /\ nextId' = IF r.kind = "ok" THEN r.id + 1 ELSE nextId
             /\ origin' = OriginAfter(origin, api, res.client, k.pc, r, now)
             /\ task' = [q \in Procs |->
                           IF q = p
                           THEN [heard EXCEPT !.pc = "leaving",
                                              !.pending = res.outcome,
                                              !.cin = api, !.post = res.client,
                                              !.ts = now,
                                              !.wrote = @ \/ res.client # api]
                           ELSE IF task[q].pc # "idle" /\ res.client # api
                                THEN [task[q] EXCEPT !.overlap = TRUE]
                                ELSE task[q]]
    /\ UNCHANGED <<now, ticks, coordVars, setup>>

\* Task p has left the block of the grant's answer.  After a refresh grant
\* that failed with a ClientError, authenticate() is called and sends the
\* password grant (line 138).  After an exception the operation ends with
\* it.  After the stores, authenticate() and refresh_access_token() return,
\* and request() reads the access token the client holds now and sends the
\* wrapped request (lines 159-173).
Resume(p) ==
    /\ task[p].pc = "leaving"
    /\ LET k == [task[p] EXCEPT !.pending = "none"]
       IN  task' = [task EXCEPT ![p] =
                      CASE task[p].pending = "fallback" ->
                               [k EXCEPT !.pc = "password",
                                         !.calls = Append(@, "password")]
                        [] task[p].pending = "ok" /\ k.op = "request" ->
                               [k EXCEPT !.pc = "request",
                                         !.sent = api.access_token,
                                         !.calls = Append(@, "request")]
                        [] OTHER ->
                               [k EXCEPT !.pc = "done",
                                         !.outcome = task[p].pending]]
    /\ UNCHANGED <<clientVars, now, ticks, coordVars, setup>>

\* the answer to the wrapped request of task p arrives (lines 174-180)
ApiAnswer(p) ==
    /\ task[p].pc = "request"
    /\ \E q \in ApiResponses(DocsFor(task[p].name)) :
         task' = [task EXCEPT ![p] =
                    [@ EXCEPT !.pc = "done",
                              !.outcome = RequestOutcome(q),
                              !.doc = q.doc,
                              !.sound = @ /\ q.kind = "ok"]]
    /\ UNCHANGED <<clientVars, now, ticks, coordVars, setup>>

\* task p calls FloAPI.authenticate: the password grant is sent
DoAuthenticate(p) ==
    /\ task[p].pc = "idle"
    /\ task' = [task EXCEPT ![p] = Entered("authenticate", "none")]
    /\ UNCHANGED <<clientVars, now, ticks, coordVars, setup>>

\* task p calls FloAPI.refresh_access_token: line 102 chooses the grant,
\* which is sent
DoRefresh(p) ==
    /\ task[p].pc = "idle"
    /\ task' = [task EXCEPT ![p] = Entered("refresh", "none")]
    /\ UNCHANGED <<clientVars, now, ticks, coordVars, setup>>

\* task p calls FloAPI.request outside the update cycle (the wrappers an
\* entity calls: set_valve_state, set_location_mode, run_health_test): the
\* gate sends a grant or, passed, the request is sent
DoRequest(p) ==
    /\ task[p].pc = "idle"
    /\ task' = [task EXCEPT ![p] = Entered("request", "call")]
    /\ UNCHANGED <<clientVars, now, ticks, coordVars, setup>>

---------------------------------------------------------------------------
(* The update cycle, coordinator.py *)

\* the end of a cycle of coordinator p that did not complete, its history c
\* holding the step that raised err: the handler of line 73
EndFailed(p, c, err) ==
    /\ failure_count' = [failure_count EXCEPT ![p] = CycleFailure(@, err).failure_count]
    /\ cyc' = [cyc EXCEPT ![p] =
                 [c EXCEPT !.result = CycleFailure(failure_count[p], err).result]]
    /\ last_update_success' =
          [last_update_success EXCEPT ![p] =
              UpdateSuccess(CycleFailure(failure_count[p], err).result)]
    /\ pc' = [pc EXCEPT ![p] = "idle"]
    /\ run' = [run EXCEPT ![p] =
                 [all |-> @.all + 1,
                  caught |-> IF err \in {"FloRequestError", "TimeoutError", "JSONDecodeError"}
                             THEN @.caught + 1 ELSE @.caught]]
    /\ task' = [task EXCEPT ![p] = NoTask]
    /\ UNCHANGED good

\* The asyncio.timeout(20) of the cycle of coordinator p (line 68) expires
\* while its task is leaving the block of a grant's answer: the task is
\* cancelled there and the step ends as TimeoutError, with the answer's
\* fields stored and neither the password grant of a fallback nor the
\* wrapped request sent.  Expiring while an HTTP call is awaited ends the
\* step as the timeout of that call does (the answer "timeout").
Expire(p) ==
    /\ pc[p] # "idle"
    /\ task[p].pc = "leaving"
    /\ task' = [task EXCEPT ![p] =
                  [@ EXCEPT !.pc = "done", !.pending = "none",
                            !.outcome = "TimeoutError", !.sound = FALSE]]
    /\ UNCHANGED <<clientVars, now, ticks, coordVars, setup>>

\* _async_update_data of coordinator p begins (lines 63-69):
\* send_presence_ping calls request(), which runs to its first await
CyclePing(p) ==
    /\ pc[p] = "idle"
    /\ task[p].pc = "idle"
    /\ run[p].all < MaxRun
    /\ pc' = [pc EXCEPT ![p] = "ping"]
    /\ task' = [task EXCEPT ![p] = Entered("request", "ping")]
    /\ cyc' = [cyc EXCEPT ![p] =
                 [NoCycle EXCEPT !.result = "running", !.n0 = failure_count[p],
                                 !.dev0 = device_information[p],
                                 !.cons0 = water_usage[p],
                                 !.saw = GateSees(api, now),
                                 !.before = api.access_token]]
    /\ UNCHANGED <<clientVars, now, ticks, device_information, water_usage,
                   failure_count, last_update_success, good, run, setup>>

\* the ping has ended (line 69): if it returned, _update_device calls
\* request(), which runs to its first await (lines 70 and 249-250)
CycleDevice(p) ==
    /\ pc[p] = "ping"
    /\ task[p].pc = "done"
    /\ LET k == task[p]
           c == StepEnded(cyc[p], "ping", k)
       IN  IF Proceeds(k.outcome)
           THEN /\ pc' = [pc EXCEPT ![p] = "device"]
                /\ cyc' = [cyc EXCEPT ![p] = c]
                /\ task' = [task EXCEPT ![p] = Entered("request", "device")]
                /\ UNCHANGED <<failure_count, last_update_success, good, run>>
           ELSE EndFailed(p, c, k.outcome)
    /\ UNCHANGED <<clientVars, now, ticks, device_information, water_usage, setup>>

\* the device fetch has ended: if it returned, its body replaces the cached
\* device document (line 249) and _update_consumption_data calls request(),
\* which runs to its first await (lines 71 and 259-265)
CycleConsumption(p) ==
    /\ pc[p] = "device"
    /\ task[p].pc = "done"
    /\ LET k == task[p]
           c == StepEnded(cyc[p], "device", k)
       IN  IF Proceeds(k.outcome)
           THEN /\ device_information' = [device_information EXCEPT ![p] = k.doc]
                /\ pc' = [pc EXCEPT ![p] = "consumption"]
                /\ cyc' = [cyc EXCEPT ![p] = [c EXCEPT !.got = k.doc]]
                /\ task' = [task EXCEPT ![p] = Entered("request", "consumption")]
                /\ UNCHANGED <<failure_count, last_update_success, good, run>>
           ELSE /\ EndFailed(p, c, k.outcome)
                /\ UNCHANGED device_information
    /\ UNCHANGED <<clientVars, now, ticks, water_usage, setup>>

\* the consumption fetch has ended: its body, or the empty document after a
\* request error, replaces the cached consumption document and the counter
\* is reset (lines 264-270 and 72); any other exception ends the cycle
CycleEnd(p) ==
    /\ pc[p] = "consumption"
    /\ task[p].pc = "done"
    /\ LET k == task[p]
           c == StepEnded(cyc[p], "consumption", k)
           usage == IF k.outcome = "ok" THEN k.doc ELSE EmptyDoc
       IN  IF Proceeds(k.outcome) \/ ConsumptionCaught(k.outcome)
           THEN /\ water_usage' = [water_usage EXCEPT ![p] = usage]
                /\ failure_count' = [failure_count EXCEPT ![p] = 0]
                /\ last_update_success' =
                      [last_update_success EXCEPT ![p] = UpdateSuccess("ok")]
                /\ pc' = [pc EXCEPT ![p] = "idle"]
                /\ cyc' = [cyc EXCEPT ![p] = [c EXCEPT !.result = "ok"]]
                /\ good' = [good EXCEPT ![p] =
                              [valid |-> TRUE, dev |-> device_information[p],
                               cons |-> usage,
                               fetched |-> @.fetched \/ k.outcome = "ok"]]
                /\ run' = [run EXCEPT ![p] = [all |-> 0, caught |-> 0]]
                /\ task' = [task EXCEPT ![p] = NoTask]
           ELSE /\ EndFailed(p, c, k.outcome)
                /\ UNCHANGED water_usage
    /\ UNCHANGED <<clientVars, now, ticks, device_information, setup>>

\* The polling coordinator over its client: the host's scheduler runs the
\* update cycle, whose requests pass the client's token gate.  A token of
\* 300 s is due at every request and one of 3600 s at none, so both sides of
\* the gate occur in the cycles without a clock step.
Next ==
    \/ CyclePing(Coord)
    \/ CycleDevice(Coord)
    \/ CycleConsumption(Coord)
    \/ CycleEnd(Coord)
    \/ Expire(Coord)
    \/ TokenAnswer(Coord)
    \/ Resume(Coord)
    \/ ApiAnswer(Coord)

Spec == InitPolling /\ [][Next]_vars

\* Each task makes one call; the first call is made by the first task, and
\* the second one at any moment after it, also while the first is under way.
Turn(p) == \A q \in Procs : q < p => task[q].pc # "idle"

\* The client alone: two of its public operations called one after the
\* other or one during the other, as the clock advances.
NextClient ==
    \/ Tick
    \/ \E p \in Procs : Turn(p) /\ DoAuthenticate(p)
    \/ \E p \in Procs : Turn(p) /\ DoRefresh(p)
    \/ \E p \in Procs : Turn(p) /\ DoRequest(p)
    \/ \E p \in Procs : TokenAnswer(p)
    \/ \E p \in Procs : Resume(p)
    \/ \E p \in Procs : ApiAnswer(p)

SpecClient == InitClient /\ [][NextClient]_vars

---------------------------------------------------------------------------
(* Setup and unload, __init__.py *)

\* FloAPI.user_id: the property raises FloAuthError when no user id is held
UserIdRaises(c) == c.user_id = None

\* async_setup_entry, lines 24-29: what leaves setup when async_get_api
\* raises err
GetApiHandler(err) ==
    IF err \in {"FloAuthError", "FloRequestError"} THEN "ConfigEntryNotReady" ELSE err

\* async_setup_entry, lines 33-35 and 50-52: what leaves setup when
\* get_user_info or the gathered refreshes raise err
RequestErrorHandler(err) ==
    IF err = "FloRequestError" THEN "ConfigEntryNotReady" ELSE err

\* What device.async_refresh() raises into line 49 when _async_update_data
\* ended with result: the host's coordinator records a raised update in
\* last_update_success and does not re-raise it.
RefreshRaises(result) == "none"

\* how the host's async_forward_entry_setups ends: it returns, or an
\* exception of the host or of a platform leaves it
ForwardOutcomes == {"ok", "HostError"}

\* setup ended by what left it at a step, result; nothing is stored
SetupEnded(step, raised, result) ==
    [NoSetup EXCEPT !.phase = "done", !.result = result, !.step = step,
                    !.raised = raised]

\* async_get_api (lines 20-23): a new client, whose authenticate() sends the
\* password grant
SetupGetApi ==
    /\ setup.phase = "start"
    /\ task[Coord].pc = "idle"
    /\ task' = [task EXCEPT ![Coord] = Entered("authenticate", "none")]
    /\ setup' = [setup EXCEPT !.phase = "authenticate"]
    /\ UNCHANGED <<clientVars, now, ticks, coordVars>>

\* authenticate() has ended: the handlers of lines 24-29 if it raised, else
\* get_user_info (lines 31-32), which reads the user id and calls request(),
\* which runs to its first await
SetupUserInfo ==
    /\ setup.phase = "authenticate"
    /\ task[Coord].pc = "done"
    /\ LET k == task[Coord]
       IN  IF k.outcome # "ok"
           THEN /\ setup' = SetupEnded("authenticate", k.outcome, GetApiHandler(k.outcome))
                /\ task' = [task EXCEPT ![Coord] = NoTask]
           ELSE IF UserIdRaises(api)
                THEN /\ setup' = SetupEnded("user_info", "FloAuthError",
                                            RequestErrorHandler("FloAuthError"))
                     /\ task' = [task EXCEPT ![Coord] = NoTask]
                ELSE /\ setup' = [setup EXCEPT !.phase = "user_info"]
                     /\ task' = [task EXCEPT ![Coord] = Entered("request", "user")]
    /\ UNCHANGED <<clientVars, now, ticks, coordVars>>

\* get_user_info has ended: the handler of lines 33-35 if it raised, else
\* the coordinator of the device is built (lines 37-45)
SetupCoordinators ==
    /\ setup.phase = "user_info"
    /\ task[Coord].pc = "done"
    /\ setup' = IF task[Coord].outcome = "ok"
                THEN [setup EXCEPT !.phase = "refresh"]
                ELSE SetupEnded("user_info", task[Coord].outcome,
                                RequestErrorHandler(task[Coord].outcome))
    /\ task' = [task EXCEPT ![Coord] = NoTask]
    /\ UNCHANGED <<clientVars, now, ticks, coordVars>>

\* device.async_refresh() of coordinator p, as setup gathers it (lines
\* 47-49): its first update cycle
FirstRefresh(p) ==
    \/ (cyc[p].result = "none" /\ CyclePing(p))
    \/ CycleDevice(p)
    \/ CycleConsumption(p)
    \/ CycleEnd(p)

\* the coordinator's first refresh, inside setup
SetupRefresh ==
    /\ setup.phase = "refresh"
    /\ FirstRefresh(Coord)

\* the gathered refresh has ended (lines 49-55): the handler of line 50 if
\* it raised, else entry.runtime_data is stored and the forwarding of the
\* entry to the platforms is awaited.  raised records the exception that
\* ended the cycle inside the refresh.
SetupStore ==
    /\ setup.phase = "refresh"
    /\ pc[Coord] = "idle"
    /\ cyc[Coord].result # "none"
    /\ setup' = IF RefreshRaises(cyc[Coord].result) = "none"
                THEN [setup EXCEPT !.phase = "forward", !.step = "refresh",
                                   !.raised = CycleError(cyc[Coord]),
                                   !.runtime_data = TRUE]
                ELSE SetupEnded("refresh", CycleError(cyc[Coord]),
                                RequestErrorHandler(RefreshRaises(cyc[Coord].result)))
    /\ UNCHANGED <<clientVars, now, ticks, task, coordVars>>

\* async_forward_entry_setups has ended (lines 55-57): the platforms are set
\* up and setup returns True, or its exception leaves setup, with the
\* runtime data stored
SetupForward ==
    /\ setup.phase = "forward"
    /\ \E o \in ForwardOutcomes :
         setup' = IF o = "ok"
                  THEN [setup EXCEPT !.phase = "done", !.result = "loaded",
                                     !.platforms = TRUE]
                  ELSE [setup EXCEPT !.phase = "done", !.result = o,
                                     !.step = "forward", !.raised = o]
    /\ UNCHANGED <<clientVars, now, ticks, task, coordVars>>

\* async_unload_entry (lines 60-62) of a loaded entry: it returns what the
\* host's async_unload_platforms returns, which unloads the platforms when
\* it returns True; entry.runtime_data is left as it is
UnloadEntry ==
    /\ setup.phase = "done"
    /\ setup.platforms
    /\ \E ok \in BOOLEAN :
         setup' = [setup EXCEPT !.platforms = ~ok,
                                !.unloaded = IF ok THEN "True" ELSE "False"]
    /\ UNCHANGED <<clientVars, now, ticks, task, coordVars>>

\* async_setup_entry step by step, and the unloading of the entry
NextSetup ==
    \/ SetupGetApi
    \/ SetupUserInfo
    \/ SetupCoordinators
    \/ SetupRefresh
    \/ SetupStore
    \/ SetupForward
    \/ UnloadEntry
    \/ Expire(Coord)
    \/ TokenAnswer(Coord)
    \/ Resume(Coord)
    \/ ApiAnswer(Coord)

SpecSetup == Init /\ [][NextSetup]_vars

---------------------------------------------------------------------------
(* Two coordinators on the shared client *)

\* The first refreshes of the two coordinators of an entry, which setup
\* gathers: each runs its update cycle as a task of its own on the client
\* that setup authenticated, their steps and the answers to their calls
\* interleaved in every order.  The token setup holds lasts 300 s or
\* 3600 s, so the first gates find it due or fresh without a clock step.
NextRace ==
    \/ \E p \in Procs : FirstRefresh(p)
    \/ \E p \in Procs : Expire(p)
    \/ \E p \in Procs : TokenAnswer(p)
    \/ \E p \in Procs : Resume(p)
    \/ \E p \in Procs : ApiAnswer(p)

SpecRace == InitRace /\ [][NextRace]_vars

---------------------------------------------------------------------------
(* The claims about the client, checked under SpecClient *)

\* the wrapped request of the operation of the task k was sent
Sent(k) == Len(k.calls) > 0 /\ k.calls[Len(k.calls)] = "request"

\* the token state when the operation of the task k began holds no access
\* token or no expiration, or its expiration is within 5 minutes of the time
\* of the call
StaleBefore(k) ==
    \/ k.pre.access_token = None
    \/ k.pre.token_expiration = NoExp
    \/ k.pre.token_expiration - k.t <= 300

\* C2, as stated: a request() made with an absent or nearly expired token
\* issues exactly one call of the token endpoint before the wrapped request
\* is sent, never a refresh grant and a password grant both.
C2_ExactlyOneTokenCall ==
    \A p \in Procs :
        (task[p].op = "request" /\ StaleBefore(task[p]) /\ Sent(task[p]))
            => Len(TokenCalls(task[p].calls)) = 1

\* C2, amended: such a request() issues one password grant when the access
\* token, the expiration or the refresh token is absent, and one refresh
\* grant otherwise; a refresh grant that fails with a transport or HTTP
\* error is followed by one password grant, two calls in all and never
\* more.  The wrapped request is sent after these calls and only if they
\* did not raise, and the last of them stored its access token in the client.
C2_OneGrantOrFallback ==
    \A p \in Procs :
        LET k == task[p]
            tok == TokenCalls(k.calls)
            absent == \/ k.pre.access_token = None
                      \/ k.pre.token_expiration = NoExp
                      \/ k.pre.refresh_token = None
        IN  (k.op = "request" /\ StaleBefore(k)) =>
              /\ k.calls[1] = IF absent THEN "password" ELSE "refresh_token"
              /\ Len(tok) <= 2
              /\ k.pc = "done" =>
                    /\ tok = IF absent THEN <<"password">>
                             ELSE IF k.r1.kind = "client_error"
                                  THEN <<"refresh_token", "password">>
                                  ELSE <<"refresh_token">>
                    /\ k.calls \in {tok, tok \o <<"request">>}
                    /\ k.outcome = "ok" => Sent(k)
              /\ Sent(k) => LET r == IF Len(tok) = 2 THEN k.r2 ELSE k.r1
                            IN  /\ r.kind = "ok"
                                /\ k.post.access_token = r.id
                                /\ k.sent # None

\* C2, witness: a request whose refresh grant failed and whose password
\* grant succeeded, sent after both calls
C2_Witness ==
    \E p \in Procs :
        /\ task[p].op = "request"
        /\ task[p].pc = "done"
        /\ StaleBefore(task[p])
        /\ task[p].calls = <<"refresh_token", "password", "request">>
        /\ task[p].outcome = "ok"

\* C3, as stated: whenever the client holds an access token it holds an
\* expiration computed from the token answer that supplied the access token.
C3_ExpirationFromSameExchange ==
    api.access_token # None =>
        /\ api.token_expiration # NoExp
        /\ api.exp_from = api.access_token

\* C7: refresh() with a stored refresh token whose refresh grant fails with
\* a transport or HTTP error calls authenticate(); when that succeeds,
\* refresh() returns and the access token, refresh token, user id and
\* expiration of the authenticate answer are stored in the client, which
\* holds them when refresh() returns unless another task has stored a token
\* since; when it fails, what the caller observes is the outcome of that
\* authenticate() and nothing of the refresh grant: FloAuthError for a
\* transport failure or an incomplete answer.
C7_RefreshFallsBackToAuthenticate ==
    \A p \in Procs :
        LET k == task[p]
        IN  (k.op = "refresh" /\ k.pc = "done" /\ k.pre.refresh_token # None
                /\ k.r1.kind = "client_error") =>
              /\ k.calls = <<"refresh_token", "password">>
              /\ Complete(k.r2) =>
                    /\ k.outcome = "ok"
                    /\ k.post.access_token = k.r2.id
                    /\ k.post.refresh_token = k.r2.id
                    /\ k.post.user_id = k.r2.id
                    /\ k.post.token_expiration = k.ts + k.r2.expires_in
                    /\ k.post.exp_from = k.r2.id
                    /\ ~k.overlap => api = k.post
              /\ k.outcome = Authenticate(k.cin, k.r2, k.ts).outcome
              /\ (k.r2.kind = "client_error"
                    \/ (k.r2.kind = "ok" /\ k.r2.keys # TokenKeys)) =>
                    k.outcome = "FloAuthError"

\* C7, witness: a refresh whose refresh grant failed and whose fallback
\* replaced the tokens of an earlier exchange
C7_Witness ==
    \E p \in Procs :
        /\ task[p].op = "refresh"
        /\ task[p].pc = "done"
        /\ task[p].pre.refresh_token # None
        /\ task[p].pre.access_token # None
        /\ task[p].r1.kind = "client_error"
        /\ task[p].outcome = "ok"
        /\ api.access_token = task[p].r2.id
        /\ api.access_token # task[p].pre.access_token

\* C8: a request() made with an access token whose expiration is more than
\* 5 minutes away issues no call of the token endpoint and stores nothing:
\* the access token, the refresh token, the expiration and the user id are
\* as they were, unless another task has stored a token since.
C8_FreshTokenNoCall ==
    \A p \in Procs :
        LET k == task[p]
        IN  (k.op = "request" /\ k.pre.access_token # None
                /\ k.pre.token_expiration # NoExp
                /\ k.pre.token_expiration - k.t > 300) =>
              /\ TokenCalls(k.calls) = <<>>
              /\ ~k.wrote
              /\ k.sent = k.pre.access_token
              /\ ~k.overlap => api = k.pre

\* C8, witness: a request sent one second before the margin is reached,
\* answered, the client as it was
C8_Witness ==
    \E p \in Procs :
        /\ task[p].op = "request"
        /\ task[p].pc = "done"
        /\ task[p].pre.access_token # None
        /\ task[p].pre.token_expiration - task[p].t = 301
        /\ task[p].calls = <<"request">>
        /\ api = task[p].pre

\* C9: after a successful authenticate with expires_in = E > 300, a request
\* at elapsed time t issues no token call when t < E - 300 and exactly one
\* refresh grant, before the wrapped request, when t >= E - 300; after a
\* successful refresh with expires_in > 300 a request that follows at once
\* issues no token call.
C9_RefreshAtMargin ==
    \A p \in Procs :
        LET k == task[p]
            E == k.from.expires_in
            t == k.t - k.from.at
            refreshes == SelectSeq(k.calls, LAMBDA x : x = "refresh_token")
        IN  (k.op = "request" /\ E > 300) =>
              /\ (k.from.op = "authenticate" /\ t < E - 300)
                    => TokenCalls(k.calls) = <<>>
              /\ (k.from.op = "authenticate" /\ t >= E - 300)
                    => /\ Len(refreshes) = 1
                       /\ k.calls[1] = "refresh_token"
                       /\ Sent(k) => (k.r1.kind = "ok" => k.post.access_token = k.r1.id)
              /\ (k.from.op = "refresh" /\ t = 0)
                    => TokenCalls(k.calls) = <<>>

\* C9, witness: the request made exactly E - 300 seconds after the
\* authenticate, refreshed and sent
C9_Witness ==
    \E p \in Procs :
        /\ task[p].op = "request"
        /\ task[p].pc = "done"
        /\ task[p].from.op = "authenticate"
        /\ task[p].from.expires_in = 3600
        /\ task[p].t - task[p].from.at = 3300
        /\ task[p].calls = <<"refresh_token", "request">>
        /\ task[p].outcome = "ok"

\* C10: with no stored refresh token, refresh() issues the single password
\* grant, stores the answer and ends (returning, or raising) exactly as
\* authenticate() does from the same state on the same answer of the
\* server; it issues no refresh grant.
C10_RefreshWithoutTokenIsAuthenticate ==
    \A p \in Procs :
        LET k == task[p]
            auth == Authenticate(k.cin, k.r1, k.ts)
        IN  (k.op = "refresh" /\ k.pre.refresh_token = None) =>
              /\ k.calls = <<"password">>
              /\ k.r2 = NoResp
              /\ k.pc = "done" =>
                    /\ k.post = auth.client
                    /\ k.outcome = auth.outcome
                    /\ ~k.overlap =>
                          /\ k.cin = k.pre
                          /\ api = Authenticate(k.pre, k.r1, k.ts).client

\* C10, witness: refresh() on a client that holds an access token and no
\* refresh token, ending with the tokens of the password grant
C10_Witness ==
    \E p \in Procs :
        /\ task[p].op = "refresh"
        /\ task[p].pc = "done"
        /\ task[p].pre.refresh_token = None
        /\ task[p].pre.access_token # None
        /\ task[p].outcome = "ok"
        /\ api.refresh_token = task[p].r1.id

\* C11, as stated: every client operation (authenticate, refresh, request)
\* either succeeds or reaches its caller as FloAuthError or FloRequestError;
\* no other kind of error leaves the client, also not when the answer to a
\* refresh grant lacks access_token or expires_in.
C11_OnlyTwoErrorKinds ==
    \A p \in Procs :
        task[p].outcome \in {"none", "ok", "FloAuthError", "FloRequestError"}

\* C19: a refresh grant that succeeds (refresh() called with a stored refresh
\* token, the answer carrying access_token and expires_in) stores the
\* answer's access token and the expiration computed from it, replaces the
\* refresh token only when the answer carries one and keeps the stored one
\* otherwise, and leaves user_id, username and password as they were; and no
\* operation of the client changes a coordinator's cached documents or its
\* failure counter.
C19_RefreshFrame ==
    \A p \in Procs :
        LET k == task[p]
        IN  /\ (k.op = "refresh" /\ k.pc = "done" /\ k.pre.refresh_token # None
                  /\ Refreshing(k.r1)) =>
                  /\ k.outcome = "ok"
                  /\ k.calls = <<"refresh_token">>
                  /\ k.post.access_token = k.r1.id
                  /\ k.post.token_expiration = k.ts + k.r1.expires_in
                  /\ k.post.exp_from = k.r1.id
                  /\ k.post.refresh_token = IF "refresh_token" \in k.r1.keys
                                            THEN k.r1.id ELSE k.cin.refresh_token
                  /\ k.post.user_id = k.cin.user_id
                  /\ k.post.username = k.cin.username
                  /\ k.post.password = k.cin.password
                  /\ ~k.overlap => (k.cin = k.pre /\ api = k.post)
            /\ k.op # "none" =>
                  /\ device_information[p] = EmptyDoc
                  /\ water_usage[p] = EmptyDoc
                  /\ failure_count[p] = 0

\* C19, witness: a successful refresh grant whose answer carries no refresh
\* token, on a client whose tokens stem from an earlier exchange: the access
\* token is new and the refresh token is the old one
C19_Witness ==
    \E p \in Procs :
        /\ task[p].op = "refresh"
        /\ task[p].pc = "done"
        /\ task[p].pre.refresh_token # None
        /\ task[p].outcome = "ok"
        /\ task[p].r1.keys = {"access_token", "expires_in"}
        /\ api.access_token = task[p].r1.id
        /\ api.refresh_token = task[p].pre.refresh_token
        /\ api.refresh_token # api.access_token
        /\ api.user_id = task[p].pre.user_id
        /\ api.user_id # None

---------------------------------------------------------------------------
(* The claims about the update cycle, checked under Spec *)

\* a cycle has ended without completing
CycleFailed(k) == pc[k] = "idle" /\ cyc[k].result \in FailResults

\* the exceptions the claims call a failing cycle: a transport failure of a
\* request, a timeout, a malformed response
SoftErrors == {"FloRequestError", "TimeoutError", "JSONDecodeError"}

\* C1, as stated, for the cycles that fail with a transport failure, a
\* timeout or a malformed response: after a successful cycle, the 1st, 2nd
\* and 3rd consecutive failing cycle each leave both cached documents as
\* they were after that successful cycle, increment the counter by one and
\* report nothing; the 4th reports UpdateFailed.
C1_FailingCyclesKeepDocuments ==
    \A k \in Procs :
        (CycleFailed(k) /\ good[k].valid /\ CycleError(cyc[k]) \in SoftErrors
            /\ run[k].caught = run[k].all) =>
            /\ run[k].all \in 1..3 =>
                  /\ device_information[k] = good[k].dev
                  /\ water_usage[k] = good[k].cons
                  /\ failure_count[k] = cyc[k].n0 + 1
                  /\ cyc[k].result = "soft"
            /\ run[k].all = 4 => cyc[k].result = "UpdateFailed"

\* C1, amended: after a successful cycle, every consecutive failing cycle
\* leaves the consumption document as it was after that successful cycle,
\* and leaves the device document as it was before the cycle unless the
\* cycle fails in its consumption step, when the device document is the one
\* fetched in that cycle.  A cycle that fails with a request error, a
\* timeout or a malformed response increments the counter by one; the 1st,
\* 2nd and 3rd such cycle report nothing and the 4th reports UpdateFailed.
\* A cycle that an exception the handler does not catch leaves (FloAuthError,
\* KeyError) is reported at once and leaves the counter as it was.
C1_FailingCyclesKeepConsumption ==
    \A k \in Procs :
        (CycleFailed(k) /\ good[k].valid) =>
            /\ water_usage[k] = good[k].cons
            /\ device_information[k] = IF cyc[k].device = "ok" THEN cyc[k].got ELSE cyc[k].dev0
            /\ (cyc[k].device # "ok" /\ run[k].all = 1) => device_information[k] = good[k].dev
            /\ CycleError(cyc[k]) \in SoftErrors =>
                  /\ failure_count[k] = cyc[k].n0 + 1
                  /\ failure_count[k] = run[k].caught
                  /\ failure_count[k] \in 1..3 => cyc[k].result = "soft"
                  /\ failure_count[k] >= 4 => cyc[k].result = "UpdateFailed"
            /\ CycleError(cyc[k]) \notin SoftErrors =>
                  /\ failure_count[k] = cyc[k].n0
                  /\ cyc[k].result = CycleError(cyc[k])

\* C1, witness: the 4th consecutive failing cycle after a successful one,
\* reported, with the documents of the successful cycle still cached
C1_Witness ==
    \E k \in Procs :
        /\ CycleFailed(k)
        /\ good[k].valid
        /\ run[k].all = 4
        /\ run[k].caught = 4
        /\ cyc[k].result = "UpdateFailed"
        /\ good[k].dev # EmptyDoc
        /\ device_information[k] = good[k].dev
        /\ water_usage[k] = good[k].cons

\* C4: a cycle whose ping and device fetch succeed and whose consumption
\* fetch fails with a request error ends with the consumption document
\* empty, the counter at 0 whatever it was, the device document replaced by
\* the one just fetched, and no failure reported.
C4_ConsumptionRequestErrorIsSuccess ==
    \A k \in Procs :
        (pc[k] = "idle" /\ cyc[k].ping = "ok" /\ cyc[k].device = "ok"
            /\ cyc[k].consumption = "FloRequestError") =>
            /\ water_usage[k] = EmptyDoc
            /\ failure_count[k] = 0
            /\ device_information[k] = cyc[k].got
            /\ cyc[k].got \in DeviceDocs
            /\ cyc[k].result = "ok"

\* C4, witness: such a cycle begun with the counter at 3, a consumption
\* document cached and another device document
C4_Witness ==
    \E k \in Procs :
        /\ pc[k] = "idle"
        /\ cyc[k].consumption = "FloRequestError"
        /\ cyc[k].n0 = 3
        /\ cyc[k].cons0 # EmptyDoc
        /\ cyc[k].dev0 # device_information[k]
        /\ failure_count[k] = 0

\* C5, as stated, for a timeout and a malformed response: a failure in the
\* consumption step does not abort the cycle, is not counted, and empties
\* the consumption document.
C5_ConsumptionErrorsNonFatal ==
    \A k \in Procs :
        (pc[k] = "idle" /\ cyc[k].consumption \in {"TimeoutError", "JSONDecodeError"}) =>
            /\ cyc[k].result = "ok"
            /\ failure_count[k] = 0
            /\ water_usage[k] = EmptyDoc

\* C5, amended: of the failures of the consumption step only a request
\* error is non-fatal: the cycle completes, the counter is reset and the
\* consumption document is emptied.  Every other failure of the step aborts
\* the cycle and leaves the consumption document as it was: a timeout or a
\* malformed response is counted as a failing cycle, and an exception the
\* handler does not catch (FloAuthError, KeyError) leaves the cycle for the
\* host with the counter as it was.
C5_OnlyRequestErrorsNonFatal ==
    \A k \in Procs :
        (pc[k] = "idle" /\ cyc[k].consumption \notin {"none", "ok"}) =>
            /\ cyc[k].consumption = "FloRequestError" =>
                  /\ cyc[k].result = "ok"
                  /\ failure_count[k] = 0
                  /\ water_usage[k] = EmptyDoc
            /\ cyc[k].consumption \in {"TimeoutError", "JSONDecodeError"} =>
                  /\ cyc[k].result \in {"soft", "UpdateFailed"}
                  /\ failure_count[k] = cyc[k].n0 + 1
                  /\ water_usage[k] = cyc[k].cons0
            /\ cyc[k].consumption \in {"FloAuthError", "KeyError"} =>
                  /\ cyc[k].result = cyc[k].consumption
                  /\ failure_count[k] = cyc[k].n0
                  /\ water_usage[k] = cyc[k].cons0

\* C5, witness: a cycle that timed out in its consumption step with a
\* consumption document cached, which is kept
C5_Witness ==
    \E k \in Procs :
        /\ pc[k] = "idle"
        /\ cyc[k].consumption = "TimeoutError"
        /\ cyc[k].cons0 # EmptyDoc
        /\ water_usage[k] = cyc[k].cons0
        /\ cyc[k].result = "soft"

\* C6, as stated: in steady-state polling (a cycle has succeeded before), an
\* error of the client (FloAuthError as well as FloRequestError), a timeout
\* or a malformed response that ends an update cycle increments the failure
\* counter, and reaches the host only when the counter exceeds 3, as
\* UpdateFailed.
C6_ClientErrorsAbsorbed ==
    \A k \in Procs :
        (CycleFailed(k) /\ good[k].valid /\ CycleError(cyc[k]) \in SoftErrors \cup {"FloAuthError"}) =>
            /\ failure_count[k] = cyc[k].n0 + 1
            /\ cyc[k].result = IF failure_count[k] > 3 THEN "UpdateFailed" ELSE "soft"


---------------------------------------------------------------------------
(* The claims about the projections and the cycle, checked under Spec *)

\* C12, as stated: consumption_today returns none while no consumption
\* document has ever been fetched, and a number once one has been fetched,
\* also when the document's aggregations lack the consumption sum.
C12_NumericOnceFetched ==
    \A k \in Procs :
        /\ ~good[k].fetched => ConsumptionToday(water_usage[k]) = ReturnsNone
        /\ good[k].fetched =>
              /\ ConsumptionToday(water_usage[k]).raises = "none"
              /\ ConsumptionToday(water_usage[k]).value # <<>>

\* C12, amended: consumption_today returns none while no consumption
\* document has ever been fetched.  After a cycle that fetched a consumption
\* document it returns the document's sumTotalGallonsConsumed when the
\* document's aggregations carry it, and none when the aggregations are
\* empty or lack the sum; after a cycle whose consumption fetch failed with
\* a request error, which empties the cached document, it returns none
\* again.  It never raises.
C12_SumOrNone ==
    \A k \in Procs :
        /\ ~good[k].fetched => ConsumptionToday(water_usage[k]) = ReturnsNone
        /\ ConsumptionToday(water_usage[k]).raises = "none"
        /\ (pc[k] = "idle" /\ cyc[k].consumption = "ok") =>
              /\ water_usage[k] \in ConsumptionDocs
              /\ ConsumptionToday(water_usage[k]) =
                    IF water_usage[k] = [aggregations |-> [sumTotalGallonsConsumed |-> 12]]
                    THEN Returns(12) ELSE ReturnsNone
        /\ (pc[k] = "idle" /\ cyc[k].consumption = "FloRequestError") =>
              ConsumptionToday(water_usage[k]) = ReturnsNone

\* C12, witness: a fetched consumption document whose aggregations are not
\* empty and lack the sum, for which consumption_today returns none
C12_Witness ==
    \E k \in Procs :
        /\ pc[k] = "idle"
        /\ good[k].fetched
        /\ cyc[k].consumption = "ok"
        /\ water_usage[k] = [aggregations |-> [sumTotalDuration |-> 40]]
        /\ ConsumptionToday(water_usage[k]) = ReturnsNone

\* C13, as stated: with a device document cached, device_name returns the
\* nickname whenever the document has one, whether or not it has a model,
\* and "Flo by Moen {model}" when it has no nickname.
C13_NicknameOrManufacturerModel ==
    \A k \in Procs :
        LET d == device_information[k]
        IN  d # EmptyDoc =>
              DeviceName(d) = IF "nickname" \in DOMAIN d
                              THEN Returns(<<d.nickname>>)
                              ELSE Returns(<<"Flo by Moen", d.deviceModel>>)

\* C14, as stated: available is true only when the last poll succeeded and
\* the connectivity flag of the cached device document is true; in
\* particular it is not true after a cycle that failed.
C14_AvailableOnlyAfterSuccess ==
    \A k \in Procs :
        LET a == Available(last_update_success[k], device_information[k])
        IN  /\ a = Returns(TRUE) =>
                  /\ last_update_success[k]
                  /\ device_information[k].isConnected
            /\ (pc[k] = "idle" /\ cyc[k].result \in FailResults) => a # Returns(TRUE)

\* C14, amended: available is true exactly when the host's
\* last_update_success flag is set and the connectivity flag of the cached
\* device document is true, and false when the flag is cleared or the
\* connectivity flag is false.  Between cycles the host's flag is cleared
\* exactly when the last cycle raised: a failing cycle that is not reported
\* (the counter at 3 or less) leaves the flag set, and available is then the
\* connectivity flag of the document cached before.  With the flag set and
\* no device document cached, available fails with a lookup error.
C14_AvailableFollowsHostFlag ==
    \A k \in Procs :
        LET a == Available(last_update_success[k], device_information[k])
            d == device_information[k]
        IN  /\ a = Returns(TRUE) <=>
                  (last_update_success[k] /\ "isConnected" \in DOMAIN d /\ d.isConnected)
            /\ ~last_update_success[k] => a = Returns(FALSE)
            /\ (last_update_success[k] /\ "isConnected" \in DOMAIN d /\ ~d.isConnected)
                  => a = Returns(FALSE)
            /\ (last_update_success[k] /\ d = EmptyDoc) => a = Raises("KeyError")
            /\ pc[k] = "idle" =>
                  (last_update_success[k] <=> cyc[k].result \in {"none", "ok", "soft"})
            /\ (pc[k] = "idle" /\ cyc[k].result = "soft" /\ cyc[k].device # "ok") =>
                  /\ d = cyc[k].dev0
                  /\ d # EmptyDoc => a = Returns(d.isConnected)

\* C14, witness: a cycle that failed before its device fetch succeeded and
\* was not reported, after which available is true on the document cached
\* earlier
C14_Witness ==
    \E k \in Procs :
        /\ pc[k] = "idle"
        /\ cyc[k].result = "soft"
        /\ cyc[k].device # "ok"
        /\ device_information[k] # EmptyDoc
        /\ Available(last_update_success[k], device_information[k]) = Returns(TRUE)

\* C17, as stated: between cycles the failure counter is the number of
\* consecutive failing cycles since the last fully successful cycle, and a
\* failing cycle is reported to the host if and only if the counter after
\* its increment exceeds 3.
C17_CounterCountsFailingCycles ==
    \A k \in Procs :
        pc[k] = "idle" =>
            /\ failure_count[k] = run[k].all
            /\ cyc[k].result \in FailResults =>
                  (cyc[k].result # "soft" <=> failure_count[k] > 3)

\* C18: the steps of a cycle run in the order ping, device fetch,
\* consumption fetch: the device fetch is entered only after the ping of the
\* same cycle succeeded and the consumption fetch only after the device
\* fetch of the same cycle succeeded, the requests sent are in that order,
\* and a failed ping ends the cycle with both cached documents as they were
\* and no further step entered or request sent.
C18_StepsInOrder ==
    \A k \in Procs :
        /\ \E n \in 0..3 : cyc[k].sent = SubSeq(<<"ping", "device", "consumption">>, 1, n)
        /\ (cyc[k].device # "none" \/ pc[k] = "device") => cyc[k].ping = "ok"
        /\ (cyc[k].consumption # "none" \/ pc[k] = "consumption") =>
              (cyc[k].ping = "ok" /\ cyc[k].device = "ok")
        /\ Len(cyc[k].sent) >= 2 => cyc[k].ping = "ok"
        /\ Len(cyc[k].sent) = 3 => cyc[k].device = "ok"
        /\ cyc[k].ping \notin {"none", "ok"} =>
              /\ pc[k] = "idle"
              /\ cyc[k].result \in FailResults
              /\ device_information[k] = cyc[k].dev0
              /\ water_usage[k] = cyc[k].cons0
              /\ cyc[k].device = "none"
              /\ cyc[k].consumption = "none"
              /\ Len(cyc[k].sent) <= 1

\* C18, witness: a cycle whose ping was sent and failed, with both documents
\* cached from an earlier cycle and kept
C18_Witness ==
    \E k \in Procs :
        /\ pc[k] = "idle"
        /\ cyc[k].ping = "FloRequestError"
        /\ cyc[k].sent = <<"ping">>
        /\ cyc[k].dev0 # EmptyDoc
        /\ cyc[k].cons0 # EmptyDoc
        /\ device_information[k] = cyc[k].dev0

\* C20, as stated: whenever a cycle has ended without a failure reported to
\* the host, the cached device document is not empty, so that available does
\* not fail with a lookup error on a coordinator the host considers updated.
C20_UpdatedImpliesDeviceDocument ==
    \A k \in Procs :
        (pc[k] = "idle" /\ cyc[k].result \in {"ok", "soft"}) =>
            /\ last_update_success[k]
            /\ device_information[k] # EmptyDoc
            /\ Available(last_update_success[k], device_information[k]).raises = "none"


---------------------------------------------------------------------------
(* The claim about two coordinators, checked under SpecRace *)

\* the first cycle of coordinator p has ended
FirstCycleEnded(p) == pc[p] = "idle" /\ cyc[p].result # "none"

\* C15: the first cycles of two coordinators on the shared client, whose
\* first gates both find the token within the margin, each issue their own
\* grant (nothing serializes them), and when every answer they receive is
\* sound (a complete token answer, or the rejection of a refresh grant, and
\* every request answered) and the 20 s limit of neither cycle expires then,
\* in whatever order the steps and the answers came: every wrapped request is sent with an access token that a grant
\* obtained after the cycle began, never with none and never with the due
\* one; and once both cycles have ended, the client's access token and
\* expiration stem from one and the same token answer, and neither cycle
\* raised: each sent its three requests and completed.
C15_ConcurrentRefreshHarmless ==
    /\ \A p \in Procs :
          (task[p].pc = "request" /\ cyc[p].saw = "near") =>
              /\ task[p].sent # None
              /\ task[p].sent # cyc[p].before
              /\ task[p].sent \in 2..(nextId - 1)
    /\ (\A p \in Procs : FirstCycleEnded(p) /\ cyc[p].saw = "near" /\ cyc[p].sound) =>
          /\ api.access_token # None
          /\ api.token_expiration # NoExp
          /\ api.exp_from = api.access_token
          /\ \A p \in Procs :
                /\ cyc[p].result = "ok"
                /\ cyc[p].sent = <<"ping", "device", "consumption">>

\* C15, witness: both first cycles found the token within the margin, a
\* grant of each stored a token while the cycle of the other was under way,
\* every answer was sound and both cycles completed
C15_Witness ==
    /\ \A p \in Procs : FirstCycleEnded(p) /\ cyc[p].saw = "near" /\ cyc[p].sound
    /\ \A p \in Procs : cyc[p].overlap
    /\ \A p \in Procs : cyc[p].result = "ok"

---------------------------------------------------------------------------
(* The claim about setup, checked under SpecSetup *)

\* C16, as stated: a FloAuthError or a FloRequestError raised by a step of
\* setup (the initial authenticate, the fetch of the user document, the
\* first refresh of the coordinator) leaves setup as ConfigEntryNotReady,
\* with no runtime data stored and no platform set up.
C16_SetupErrorsAreNotReady ==
    (setup.phase = "done" /\ setup.raised \in {"FloAuthError", "FloRequestError"}) =>
        /\ setup.result = "ConfigEntryNotReady"
        /\ ~setup.runtime_data
        /\ ~setup.platforms
====
